---- MODULE Spec2Model ----
(***************************************************************************)
(* A model of linked-slab: a doubly-linked list whose nodes live in a      *)
(* slab (slot arena) and are addressed by slot index (src/src/lib.rs).     *)
(*                                                                         *)
(* Option<usize> is modelled by an integer, None being -1.  A slab entry   *)
(* is a record [occupied, node, vacant_next]: Entry::Occupied(node) or     *)
(* Entry::Vacant(next free key).                                           *)
(*                                                                         *)
(* The linking methods hold debug assertions and unchecked slab accesses,  *)
(* so what a call does can depend on the build: their operators take a     *)
(* flag `debug`, and a call either returns or ends the run ("panic") with  *)
(* the list as the failing statement found it.  An unchecked access beyond *)
(* the entries of the arena is undefined behaviour in a build without      *)
(* debug assertions: the operators take the outcome as an input `ub`,      *)
(* drawn from UBOutcomes, and a run is followed up to its first undefined  *)
(* behaviour and no further.  Where such an access lands depends on the    *)
(* capacity of the arena (with_capacity, reserve, reserve_exact), which is *)
(* no state of the model: every outcome is drawn wherever one is possible. *)
(***************************************************************************)
EXTENDS Integers, Sequences, FiniteSets, Bags

\* ---------------------------------------------------------------- bounds
\* Largest number of slab entries the model lets the arena grow to.
MaxSlots == 3
\* Payloads are 0 .. MaxItem.
MaxItem == 1
\* Cursors and whole-node overwrites (*r = node through a &mut Node) are
\* explored in the first MaxCalls calls of a run; a run in which a node was
\* overwritten ends there, any other run goes on with the methods of List.
MaxCalls == 5

Items == 0 .. MaxItem
\* Handles a caller may pass: every index the arena can hold plus one that
\* is never issued.
NodeIds == 0 .. MaxSlots

\* Option::None for Option<usize>
None == -1

VARIABLES
    inner,      \* List.inner : Slab<Node<T>>, [entries, len, next]
    init,       \* List.init  : Option<usize>
    last,       \* List.last  : Option<usize>
    fault,      \* "none", or how the last call ended the run: "panic", or
                \* in undefined behaviour "ub", "ub_panic", "killed"
    release,    \* the run has passed a point where a debug build panics
    calls,      \* number of calls made so far, counted up to MaxCalls
    tampered,   \* a node has been overwritten as a whole
    deque,      \* reference deque of <<handle, payload>> (specification side)
    ev,         \* the last call: [op, arg, ret]
    cursor      \* the live Cursors / CursorMut borrowing the list, if any:
                \* their type and the bag of their positions

vars == <<inner, init, last, fault, release, calls, tampered, deque, ev, cursor>>

\* ------------------------------------------------------------------ Node
Node(item, next, prev) == [item |-> item, next |-> next, prev |-> prev]

\* placeholder carried where no node is stored or returned
NoNode == Node(None, None, None)

\* Node::next / Node::prev
Node_next(n) == n.next
Node_prev(n) == n.prev

\* Node::into_inner / Deref
into_inner(n) == n.item

\* ------------------------------------------------------------------ Slab
Occupied(n) == [occupied |-> TRUE, node |-> n, vacant_next |-> None]
Vacant(k) == [occupied |-> FALSE, node |-> NoNode, vacant_next |-> k]

\* Slab::new
Slab_new == [entries |-> [i \in {} |-> Vacant(0)], len |-> 0, next |-> 0]

entries_len(s) == Cardinality(DOMAIN s.entries)

\* Slab::contains
slab_contains(s, key) ==
    /\ key \in DOMAIN s.entries
    /\ s.entries[key].occupied

\* Slab::get : Option<&Node>, as [some, node]
slab_get(s, key) ==
    IF slab_contains(s, key)
    THEN [some |-> TRUE, node |-> s.entries[key].node]
    ELSE [some |-> FALSE, node |-> NoNode]

\* vacant_key as it would be if the number of stored values were taken for
\* the next free key
vacant_key_is_len(s) == s.len

\* vacant_key as it would be if the arena always grew, never reusing a slot
vacant_key_always_grows(s) == entries_len(s)

\* Slab::vacant_entry().key()
vacant_key(s) == s.next

\* VacantEntry::insert : reuse the most recently freed slot, else grow
slab_insert(s, key, n) ==
    IF key = entries_len(s)
    THEN [entries |-> [i \in 0 .. key |->
                          IF i = key THEN Occupied(n) ELSE s.entries[i]],
          len |-> s.len + 1,
          next |-> key + 1]
    ELSE [entries |-> [s.entries EXCEPT ![key] = Occupied(n)],
          len |-> s.len + 1,
          next |-> s.entries[key].vacant_next]

\* Slab::remove on an occupied key: the slot joins the head of the free list
slab_remove(s, key) ==
    [entries |-> [s.entries EXCEPT ![key] = Vacant(s.next)],
     len |-> s.len - 1,
     next |-> key]

\* write through the &mut Node obtained for an occupied key
slab_set_prev(s, key, p) ==
    [s EXCEPT !.entries[key].node.prev = p]

slab_set_next(s, key, n) ==
    [s EXCEPT !.entries[key].node.next = n]


\* ------------------------------------------------------------------ List
List(i, f, l) == [inner |-> i, init |-> f, last |-> l]

\* List::new / List::default
List_new == List(Slab_new, None, None)

\* results of the calls: the list as the call left it, what was returned, and
\* how the call ended: "none" (it returned), "panic" (it did not return: a
\* debug assertion failed, or the slab's unchecked access found a vacant
\* entry), or one of the UBOutcomes when it made an unchecked access beyond
\* the entries of the arena
Result(L, r, f) == [list |-> L, ret |-> r, fault |-> f]

\* the call came back to its caller
Returns(f) == f \in {"none", "ub"}

\* how a call ends whose later statements end with g, an earlier statement
\* having ended with f and gone on: an unchecked access beyond the entries
\* that went on leaves whatever follows in the call, a return or a panic,
\* within undefined behaviour
after(f, g) ==
    IF f = "ub"
    THEN CASE g = "none" -> "ub"
           [] g = "panic" -> "ub_panic"
           [] OTHER -> g
    ELSE g

RetKey(k) == [some |-> TRUE, key |-> k, node |-> NoNode]
RetNode(n) == [some |-> TRUE, key |-> None, node |-> n]
RetNone == [some |-> FALSE, key |-> None, node |-> NoNode]

\* List::get
get(L, id) == slab_get(L.inner, id)

\* List::get_mut : the same slot, handed out as &mut Node
get_mut(L, id) == slab_get(L.inner, id)

\* List::contains
contains(L, id) == slab_contains(L.inner, id)

\* List::init / List::last  (the spec's head() / tail())
List_init(L) == L.init
List_last(L) == L.last

\* what a build without debug assertions can do at get_unchecked_mut(key)
\* followed by a write of one link, key being beyond the entries of the
\* arena.  The access lands in memory that is no entry: the call goes on and
\* returns, having written outside the arena ("ub": no entry of the list is
\* changed, but the write may have damaged the allocator's bookkeeping, so
\* that a later call can be killed, and nothing is known of the process
\* from here on), or the call panics ("ub_panic": the slab takes what it
\* reads for a vacant entry, or the call goes on after the access and a
\* later statement of it panics), or the access leaves the process's
\* memory and the process is killed ("killed").  Each of the three ends
\* the run
UBOutcomes == {"ub", "ub_panic", "killed"}

\* key is Some and beyond the entries of the arena
Beyond(s, key) == key # None /\ key \notin DOMAIN s.entries

\* debug_assert!(contains(key)) followed by get_unchecked_mut(key), on a key
\* that names no occupied slot: with debug assertions the assertion panics;
\* without them the slab panics on a vacant entry (unreachable!()), and the
\* access is undefined behaviour, with outcome ub, when key is beyond the
\* entries
unchecked_miss(s, key, debug, ub) ==
    IF debug \/ ~Beyond(s, key) THEN "panic" ELSE ub

\* List::push_front; debug tells whether debug assertions are compiled in
push_front(L, item, debug, ub) ==
    LET key == vacant_key(L.inner)
        next == L.init
        ins == slab_insert(L.inner, key, Node(item, next, None))
    IN  IF next # None
        THEN IF slab_contains(ins, next)
             THEN LET linked == List(slab_set_prev(ins, next, key), key, L.last)
                  IN  IF debug /\ ins.entries[next].node.prev # None
                      THEN Result(linked, RetNone, "panic")
                      ELSE Result(linked, RetKey(key), "none")
             ELSE LET miss == unchecked_miss(ins, next, debug, ub)
                  IN  Result(List(ins, key, L.last),
                             IF Returns(miss) THEN RetKey(key) ELSE RetNone,
                             miss)
        ELSE Result(List(ins, key, L.last), RetKey(key), "none")

\* List::push_back
push_back(L, item, debug, ub) ==
    LET key == vacant_key(L.inner)
        prev == L.last
        ins == slab_insert(L.inner, key, Node(item, None, prev))
    IN  IF prev # None
        THEN IF slab_contains(ins, prev)
             THEN LET linked == List(slab_set_next(ins, prev, key), L.init, key)
                  IN  IF debug /\ ins.entries[prev].node.next # None
                      THEN Result(linked, RetNone, "panic")
                      ELSE Result(linked, RetKey(key), "none")
             ELSE LET miss == unchecked_miss(ins, prev, debug, ub)
                  IN  Result(List(ins, L.init, key),
                             IF Returns(miss) THEN RetKey(key) ELSE RetNone,
                             miss)
        ELSE Result(List(ins, L.init, key), RetKey(key), "none")

\* List::remove, the relinking of the predecessor side (lines 129-136): the
\* assertions come before the write, so a failing one leaves the link alone;
\* a write beyond the entries changes no node of the list
remove_prev_side(L, id, node, debug, ub) ==
    IF node.prev # None
    THEN IF slab_contains(L.inner, node.prev)
         THEN IF debug /\ L.inner.entries[node.prev].node.next # id
              THEN Result(L, RetNone, "panic")
              ELSE Result(List(slab_set_next(L.inner, node.prev, node.next),
                               L.init, L.last),
                          RetNone, "none")
         ELSE Result(L, RetNone, unchecked_miss(L.inner, node.prev, debug, ub))
    ELSE Result(List(L.inner, node.next, L.last), RetNone, "none")

\* remove_next_side as it would be if the successor's prev were left naming
\* the removed node
remove_next_side_stale_prev(L, id, node, debug, ub) ==
    IF node.next # None
    THEN IF slab_contains(L.inner, node.next)
         THEN IF debug /\ L.inner.entries[node.next].node.prev # id
              THEN Result(L, RetNone, "panic")
              ELSE Result(L, RetNone, "none")
         ELSE Result(L, RetNone, unchecked_miss(L.inner, node.next, debug, ub))
    ELSE Result(List(L.inner, L.init, node.prev), RetNone, "none")

\* List::remove, the relinking of the successor side (lines 138-145)
remove_next_side(L, id, node, debug, ub) ==
    IF node.next # None
    THEN IF slab_contains(L.inner, node.next)
         THEN IF debug /\ L.inner.entries[node.next].node.prev # id
              THEN Result(L, RetNone, "panic")
              ELSE Result(List(slab_set_prev(L.inner, node.next, node.prev),
                               L.init, L.last),
                          RetNone, "none")
         ELSE Result(L, RetNone, unchecked_miss(L.inner, node.next, debug, ub))
    ELSE Result(List(L.inner, L.init, node.prev), RetNone, "none")

\* remove as it would be without the early return: a handle that names no
\* occupied slot yields no node, and the relinking runs on its absent links
remove_without_early_return(L, id, debug, ubp, ubn) ==
    IF ~slab_contains(L.inner, id)
    THEN Result(List(L.inner, None, None), RetNone, "none")
    ELSE LET node == L.inner.entries[id].node
             taken == List(slab_remove(L.inner, id), L.init, L.last)
             p == remove_prev_side(taken, id, node, debug, ubp)
             n == remove_next_side(p.list, id, node, debug, ubn)
         IN  IF ~Returns(p.fault) THEN p
             ELSE IF ~Returns(n.fault)
                  THEN Result(n.list, n.ret, after(p.fault, n.fault))
             ELSE Result(n.list, RetNode(node), after(p.fault, n.fault))

\* List::remove: the call stops at the first statement that fails, with the
\* slot already vacated and the later statements not run; ubp and ubn are the
\* outcomes of the unchecked accesses to the predecessor and to the successor
\* (a call that went on after the one makes the other too, and however it
\* ends then, it ends in undefined behaviour)
remove(L, id, debug, ubp, ubn) ==
    IF ~slab_contains(L.inner, id)
    THEN Result(L, RetNone, "none")
    ELSE LET node == L.inner.entries[id].node
             taken == List(slab_remove(L.inner, id), L.init, L.last)
             p == remove_prev_side(taken, id, node, debug, ubp)
             n == remove_next_side(p.list, id, node, debug, ubn)
         IN  IF ~Returns(p.fault) THEN p
             ELSE IF ~Returns(n.fault)
                  THEN Result(n.list, n.ret, after(p.fault, n.fault))
             ELSE Result(n.list, RetNode(node), after(p.fault, n.fault))

\* List::pop_front
pop_front(L, debug, ubp, ubn) ==
    IF List_init(L) = None
    THEN Result(L, RetNone, "none")
    ELSE remove(L, List_init(L), debug, ubp, ubn)

\* List::pop_back
pop_back(L, debug, ubp, ubn) ==
    IF List_last(L) = None
    THEN Result(L, RetNone, "none")
    ELSE remove(L, List_last(L), debug, ubp, ubn)

\* a payload written through a &mut Node (DerefMut): **r = item, r being the
\* Some of get_mut(id) or of CursorMut::current; nothing to write to when
\* the slot is not occupied
deref_mut_write(L, id, item) ==
    IF get_mut(L, id).some
    THEN List([L.inner EXCEPT !.entries[id].node.item = item], L.init, L.last)
    ELSE L

\* a whole node stored through a &mut Node: *r = node (Node is Copy/Clone, so
\* a caller holds nodes by value); payload and both links are replaced
node_assign(L, id, node) ==
    IF get_mut(L, id).some
    THEN List([L.inner EXCEPT !.entries[id].node = node], L.init, L.last)
    ELSE L

\* ---------------------------------------------------------------- Cursor
\* A cursor is its `current` field; the borrowed list is passed alongside.

\* List::cursor_front / cursor_back / cursor_at
cursor_front(L) == L.init
cursor_back(L) == L.last
cursor_at(L, id) == id

\* current as it would be if the slot were read without the occupancy check
current_unchecked(L, c) ==
    IF c \in DOMAIN L.inner.entries
    THEN [some |-> TRUE, node |-> L.inner.entries[c].node]
    ELSE [some |-> FALSE, node |-> NoNode]

\* Cursor::current
current(L, c) ==
    IF c = None THEN [some |-> FALSE, node |-> NoNode] ELSE slab_get(L.inner, c)

\* Cursor::try_next : [current, ret]
try_next(L, c) ==
    LET cur == current(L, c)
    IN  IF cur.some /\ cur.node.next # None
        THEN [current |-> cur.node.next, ret |-> TRUE]
        ELSE [current |-> c, ret |-> FALSE]

\* Cursor::try_prev : [current, ret]
try_prev(L, c) ==
    LET cur == current(L, c)
    IN  IF cur.some /\ cur.node.prev # None
        THEN [current |-> cur.node.prev, ret |-> TRUE]
        ELSE [current |-> c, ret |-> FALSE]

\* List::cursor_front_mut / cursor_back_mut / cursor_at_mut
cursor_front_mut(L) == L.init
cursor_back_mut(L) == L.last
cursor_at_mut(L, id) == id

\* CursorMut::current (slab get_mut)
CursorMut_current(L, c) ==
    IF c = None THEN [some |-> FALSE, node |-> NoNode] ELSE slab_get(L.inner, c)

\* CursorMut::try_next : [current, ret]
CursorMut_try_next(L, c) ==
    LET cur == CursorMut_current(L, c)
    IN  IF cur.some /\ cur.node.next # None
        THEN [current |-> cur.node.next, ret |-> TRUE]
        ELSE [current |-> c, ret |-> FALSE]

\* CursorMut::try_prev : [current, ret]
CursorMut_try_prev(L, c) ==
    LET cur == CursorMut_current(L, c)
    IN  IF cur.some /\ cur.node.prev # None
        THEN [current |-> cur.node.prev, ret |-> TRUE]
        ELSE [current |-> c, ret |-> FALSE]

\* ------------------------------------------------- the reference deque
\* position of handle h in a sequence of <<handle, payload>> pairs, 0 if none
RECURSIVE IndexOf(_, _)
IndexOf(q, h) ==
    IF q = <<>> THEN 0
    ELSE IF Head(q)[1] = h THEN 1
    ELSE LET r == IndexOf(Tail(q), h) IN IF r = 0 THEN 0 ELSE r + 1

\* the sequence without its element for handle h, the others in order
Delete(q, h) ==
    LET i == IndexOf(q, h)
    IN  IF i = 0 THEN q
        ELSE SubSeq(q, 1, i - 1) \o SubSeq(q, i + 1, Len(q))

\* the sequence with the payload of its element for handle h replaced
Rewrite(q, h, item) ==
    [i \in 1 .. Len(q) |-> IF q[i][1] = h THEN <<h, item>> ELSE q[i]]

\* the reference deque after the call recorded in e, made on list L; a call
\* that did not return leaves it alone
RefApply(q, e, L) ==
    CASE e.op = "push_front" ->
             IF e.ret.some THEN <<(<<e.ret.key, e.arg>>)>> \o q ELSE q
      [] e.op = "push_back" ->
             IF e.ret.some THEN Append(q, <<e.ret.key, e.arg>>) ELSE q
      [] e.op = "remove" -> IF e.ret.some THEN Delete(q, e.arg) ELSE q
      [] e.op = "pop_front" ->
             IF e.ret.some THEN Delete(q, List_init(L)) ELSE q
      [] e.op = "pop_back" ->
             IF e.ret.some THEN Delete(q, List_last(L)) ELSE q
      [] e.op = "get_mut_assign" -> Rewrite(q, e.arg, e.ret.node.item)
      [] OTHER -> q

\* --------------------------------------------------------------- actions
Self == List(inner, init, last)

Event(op, arg, r) == [op |-> op, arg |-> arg, ret |-> r]

NoEvent == Event("new", None, RetNone)

RetBool(b) == [some |-> b, key |-> None, node |-> NoNode]

\* the cursor variable: which type is live and the bag of the `current`
\* fields of the live cursors (one for a CursorMut; Cursor is Copy, so any
\* number of Cursors, each with a position of its own)
CursorOf(kind, at) == [kind |-> kind, at |-> at]
NoCursor == CursorOf("none", EmptyBag)

\* the bag holding one cursor, at position c
One(c) == SetToBag({c})

\* the positions at which a live cursor stands
Positions == BagToSet(cursor.at)

\* a &mut self method of List needs the list not to be borrowed
Unborrowed == cursor.kind = "none"

\* a &self method of List needs the list not to be mutably borrowed
Shareable == cursor.kind # "CursorMut"

\* the run is within its first MaxCalls calls
Early == calls < MaxCalls

\* the run may go on: it is within its first calls, or no node was overwritten
Open == Early \/ ~tampered

\* one more call is counted
Tick == calls' = IF Early THEN calls + 1 ELSE calls

\* a run is a run of one build: once a call has gone on where the debug
\* build panics, the debug build is out
BuildOK(debug) == release => ~debug

OccupiedSlots(L) == {k \in DOMAIN L.inner.entries : L.inner.entries[k].occupied}

Removals == {"remove", "pop_front", "pop_back"}

\* Option<usize> as a link: None or an index
Links == NodeIds \cup {None}

\* the nodes a caller can hold by value (Node is Copy/Clone): a copy read
\* from this list now or earlier, a node some remove or pop returned, a node
\* read from another List (List is Clone).  Lists of up to MaxSlots + 1
\* slots hold, between them, every payload with every pair of links
HeldNodes == [item : Items, next : Links, prev : Links]

\* the outcomes to draw for the unchecked access a call makes at key: where
\* the access stays within the entries the outcome is not consulted
Outcomes(key) == IF Beyond(inner, key) THEN UBOutcomes ELSE {"ub"}

\* the links of the node a removal of id takes out, None if it takes none
PrevOf(id) == Node_prev(get(Self, id).node)
NextOf(id) == Node_next(get(Self, id).node)

Commit(r) ==
    /\ inner' = r.list.inner
    /\ init' = r.list.init
    /\ last' = r.list.last
    /\ fault' = r.fault

\* a call of a linking method: rd is what the build with debug assertions
\* does, rr what the build without them does.  Where the two agree the run
\* stays a run of either build; where they differ it goes on as the one or
\* as the other
Call(op, arg, rd, rr) ==
    /\ \/ /\ ~release
          /\ Commit(rd)
          /\ ev' = Event(op, arg, rd.ret)
          /\ release' = FALSE
       \/ /\ release \/ rr # rd
          /\ Commit(rr)
          /\ ev' = Event(op, arg, rr.ret)
          /\ release' = TRUE
    /\ Tick
    /\ UNCHANGED tampered

Init ==
    /\ inner = List_new.inner
    /\ init = List_new.init
    /\ last = List_new.last
    /\ fault = "none"
    /\ release = FALSE
    /\ calls = 0
    /\ tampered = FALSE
    /\ deque = <<>>
    /\ ev = NoEvent
    /\ cursor = NoCursor

PushFront ==
    \E item \in Items, ub \in Outcomes(init) :
        /\ fault = "none"
        /\ Unborrowed
        /\ Open
        /\ vacant_key(inner) < MaxSlots
        /\ Call("push_front", item,
                push_front(Self, item, TRUE, ub),
                push_front(Self, item, FALSE, ub))

PushBack ==
    \E item \in Items, ub \in Outcomes(last) :
        /\ fault = "none"
        /\ Unborrowed
        /\ Open
        /\ vacant_key(inner) < MaxSlots
        /\ Call("push_back", item,
                push_back(Self, item, TRUE, ub),
                push_back(Self, item, FALSE, ub))

Remove ==
    \E id \in NodeIds :
        \E ubp \in Outcomes(PrevOf(id)), ubn \in Outcomes(NextOf(id)) :
            /\ fault = "none"
            /\ Unborrowed
            /\ Open
            /\ Call("remove", id,
                    remove(Self, id, TRUE, ubp, ubn),
                    remove(Self, id, FALSE, ubp, ubn))

PopFront ==
    \E ubp \in Outcomes(PrevOf(init)), ubn \in Outcomes(NextOf(init)) :
        /\ fault = "none"
        /\ Unborrowed
        /\ Open
        /\ Call("pop_front", None,
                pop_front(Self, TRUE, ubp, ubn),
                pop_front(Self, FALSE, ubp, ubn))

PopBack ==
    \E ubp \in Outcomes(PrevOf(last)), ubn \in Outcomes(NextOf(last)) :
        /\ fault = "none"
        /\ Unborrowed
        /\ Open
        /\ Call("pop_back", None,
                pop_back(Self, TRUE, ubp, ubn),
                pop_back(Self, FALSE, ubp, ubn))

\* List::get_mut followed, when it is Some, by a write of the payload
\* through the &mut:  **list.get_mut(id).unwrap() = item
GetMutWriteAt(id, item) ==
    /\ fault = "none"
    /\ Unborrowed
    /\ Open
    /\ get_mut(Self, id).some
    /\ LET L == deref_mut_write(Self, id, item)
       IN  /\ inner' = L.inner
           /\ init' = L.init
           /\ last' = L.last
    /\ ev' = Event("get_mut_write", None, RetNone)
    /\ Tick
    /\ UNCHANGED <<fault, release, tampered>>

GetMutWrite == \E id \in NodeIds, item \in Items : GetMutWriteAt(id, item)

\* List::get_mut followed, when it is Some, by a store of a held node
\* through the &mut:  *list.get_mut(id).unwrap() = node
GetMutAssignAt(id, node) ==
    /\ fault = "none"
    /\ Unborrowed
    /\ Early
    /\ get_mut(Self, id).some
    /\ get_mut(Self, id).node # node
    /\ LET L == node_assign(Self, id, node)
       IN  /\ inner' = L.inner
           /\ init' = L.init
           /\ last' = L.last
    /\ ev' = Event("get_mut_assign", id, RetNode(node))
    /\ Tick
    /\ tampered' = TRUE
    /\ UNCHANGED <<fault, release>>

GetMutAssign == \E id \in NodeIds, node \in HeldNodes : GetMutAssignAt(id, node)

\* the reference deque follows the call just made
Track == deque' = RefApply(deque, ev', Self)

\* the list driven through its own methods
Next ==
    \/ PushFront /\ UNCHANGED <<deque, cursor>>
    \/ PushBack /\ UNCHANGED <<deque, cursor>>
    \/ Remove /\ UNCHANGED <<deque, cursor>>
    \/ PopFront /\ UNCHANGED <<deque, cursor>>
    \/ PopBack /\ UNCHANGED <<deque, cursor>>
    \/ GetMutWrite /\ UNCHANGED <<deque, cursor>>
    \/ GetMutAssign /\ UNCHANGED <<deque, cursor>>

Spec == Init /\ [][Next]_vars

\* the list driven through its own methods, with the reference deque kept
NextRef ==
    \/ PushFront /\ Track /\ UNCHANGED cursor
    \/ PushBack /\ Track /\ UNCHANGED cursor
    \/ Remove /\ Track /\ UNCHANGED cursor
    \/ PopFront /\ Track /\ UNCHANGED cursor
    \/ PopBack /\ Track /\ UNCHANGED cursor
    \/ \E id \in NodeIds, item \in Items :
           /\ GetMutWriteAt(id, item)
           /\ deque' = Rewrite(deque, id, item)
           /\ UNCHANGED cursor
    \/ GetMutAssign /\ Track /\ UNCHANGED cursor

SpecRef == Init /\ [][NextRef]_vars

\* ------------------------------------------------------- cursor actions
ListVars == <<inner, init, last, fault, release, tampered>>

\* List::cursor_front (&self: other Cursors may be alive)
CursorFront ==
    /\ fault = "none"
    /\ Shareable
    /\ Early
    /\ cursor' = CursorOf("Cursor", cursor.at (+) One(cursor_front(Self)))
    /\ ev' = Event("cursor_front", cursor_front(Self), RetNone)
    /\ Tick
    /\ UNCHANGED <<ListVars, deque>>

\* List::cursor_back
CursorBack ==
    /\ fault = "none"
    /\ Shareable
    /\ Early
    /\ cursor' = CursorOf("Cursor", cursor.at (+) One(cursor_back(Self)))
    /\ ev' = Event("cursor_back", cursor_back(Self), RetNone)
    /\ Tick
    /\ UNCHANGED <<ListVars, deque>>

\* List::cursor_at
CursorAt ==
    \E id \in NodeIds :
        /\ fault = "none"
        /\ Shareable
        /\ Early
        /\ cursor' = CursorOf("Cursor", cursor.at (+) One(cursor_at(Self, id)))
        /\ ev' = Event("cursor_at", id, RetNone)
        /\ Tick
        /\ UNCHANGED <<ListVars, deque>>

\* List::cursor_front_mut (&mut self)
CursorFrontMut ==
    /\ fault = "none"
    /\ Unborrowed
    /\ Early
    /\ cursor' = CursorOf("CursorMut", One(cursor_front_mut(Self)))
    /\ ev' = Event("cursor_front_mut", cursor_front_mut(Self), RetNone)
    /\ Tick
    /\ UNCHANGED <<ListVars, deque>>

\* List::cursor_back_mut
CursorBackMut ==
    /\ fault = "none"
    /\ Unborrowed
    /\ Early
    /\ cursor' = CursorOf("CursorMut", One(cursor_back_mut(Self)))
    /\ ev' = Event("cursor_back_mut", cursor_back_mut(Self), RetNone)
    /\ Tick
    /\ UNCHANGED <<ListVars, deque>>

\* List::cursor_at_mut
CursorAtMut ==
    \E id \in NodeIds :
        /\ fault = "none"
        /\ Unborrowed
        /\ Early
        /\ cursor' = CursorOf("CursorMut", One(cursor_at_mut(Self, id)))
        /\ ev' = Event("cursor_at_mut", id, RetNone)
        /\ Tick
        /\ UNCHANGED <<ListVars, deque>>

\* Cursor as it is copied (Cursor is Copy, line 213): one more Cursor at the
\* position of a live one
CursorCopy ==
    \E c \in Positions :
        /\ cursor.kind = "Cursor"
        /\ Early
        /\ cursor' = CursorOf("Cursor", cursor.at (+) One(c))
        /\ ev' = Event("cursor_copy", c, RetNone)
        /\ Tick
        /\ UNCHANGED <<ListVars, deque>>

\* Cursor::try_next, on one of the live Cursors: that one moves, any other
\* Cursor at its position stays
CursorTryNext ==
    \E c \in Positions :
        /\ cursor.kind = "Cursor"
        /\ Early
        /\ LET s == try_next(Self, c)
           IN  /\ cursor' = CursorOf("Cursor",
                                     (cursor.at (-) One(c)) (+) One(s.current))
               /\ ev' = Event("try_next", c, RetBool(s.ret))
        /\ Tick
        /\ UNCHANGED <<ListVars, deque>>

\* Cursor::try_prev, on one of the live Cursors
CursorTryPrev ==
    \E c \in Positions :
        /\ cursor.kind = "Cursor"
        /\ Early
        /\ LET s == try_prev(Self, c)
           IN  /\ cursor' = CursorOf("Cursor",
                                     (cursor.at (-) One(c)) (+) One(s.current))
               /\ ev' = Event("try_prev", c, RetBool(s.ret))
        /\ Tick
        /\ UNCHANGED <<ListVars, deque>>

\* CursorMut::try_next
CursorMutTryNext ==
    \E c \in Positions :
        /\ cursor.kind = "CursorMut"
        /\ Early
        /\ LET s == CursorMut_try_next(Self, c)
           IN  /\ cursor' = CursorOf("CursorMut", One(s.current))
               /\ ev' = Event("try_next", c, RetBool(s.ret))
        /\ Tick
        /\ UNCHANGED <<ListVars, deque>>

\* CursorMut::try_prev
CursorMutTryPrev ==
    \E c \in Positions :
        /\ cursor.kind = "CursorMut"
        /\ Early
        /\ LET s == CursorMut_try_prev(Self, c)
           IN  /\ cursor' = CursorOf("CursorMut", One(s.current))
               /\ ev' = Event("try_prev", c, RetBool(s.ret))
        /\ Tick
        /\ UNCHANGED <<ListVars, deque>>

\* CursorMut::current followed, when it is Some, by a write of the payload
\* through the &mut:  **cursor.current().unwrap() = item
CursorMutWrite ==
    \E c \in Positions, item \in Items :
        /\ cursor.kind = "CursorMut"
        /\ Early
        /\ CursorMut_current(Self, c).some
        /\ LET L == deref_mut_write(Self, c, item)
           IN  /\ inner' = L.inner
               /\ init' = L.init
               /\ last' = L.last
               /\ ev' = Event("write", c, RetNode(L.inner.entries[c].node))
        /\ Tick
        /\ UNCHANGED <<fault, release, tampered, deque, cursor>>

\* CursorMut::current followed, when it is Some, by a store of a held node
\* through the &mut:  *cursor.current().unwrap() = node
CursorMutAssign ==
    \E c \in Positions, node \in HeldNodes :
        /\ cursor.kind = "CursorMut"
        /\ Early
        /\ CursorMut_current(Self, c).some
        /\ CursorMut_current(Self, c).node # node
        /\ LET L == node_assign(Self, c, node)
           IN  /\ inner' = L.inner
               /\ init' = L.init
               /\ last' = L.last
        /\ ev' = Event("assign", c, RetNode(node))
        /\ Tick
        /\ tampered' = TRUE
        /\ UNCHANGED <<fault, release, deque, cursor>>

\* one cursor goes out of scope, the others stay where they are; the borrow
\* of the list ends with the last
DropCursor ==
    \E c \in Positions :
        /\ cursor' = IF cursor.at = One(c)
                     THEN NoCursor
                     ELSE CursorOf(cursor.kind, cursor.at (-) One(c))
        /\ ev' = Event("drop", c, RetNone)
        /\ UNCHANGED <<ListVars, calls, deque>>

\* the list driven through its own methods and through cursors
NextCursor ==
    \/ PushFront /\ UNCHANGED <<deque, cursor>>
    \/ PushBack /\ UNCHANGED <<deque, cursor>>
    \/ Remove /\ UNCHANGED <<deque, cursor>>
    \/ PopFront /\ UNCHANGED <<deque, cursor>>
    \/ PopBack /\ UNCHANGED <<deque, cursor>>
    \/ GetMutWrite /\ UNCHANGED <<deque, cursor>>
    \/ GetMutAssign /\ UNCHANGED <<deque, cursor>>
    \/ CursorFront
    \/ CursorBack
    \/ CursorAt
    \/ CursorFrontMut
    \/ CursorBackMut
    \/ CursorAtMut
    \/ CursorCopy
    \/ CursorTryNext
    \/ CursorTryPrev
    \/ CursorMutTryNext
    \/ CursorMutTryPrev
    \/ CursorMutWrite
    \/ CursorMutAssign
    \/ DropCursor

SpecCursor == Init /\ [][NextCursor]_vars

\* ------------------------------------------------------------ traversals
\* the positions a cursor started at c stands at while try_next is called
\* until it answers false: c, then the position each successful step moved it
\* to, occupied or not; the walk gives up after `fuel` successful steps
RECURSIVE WalkNext(_, _, _)
WalkNext(L, c, fuel) ==
    LET s == try_next(L, c)
    IN  IF s.ret /\ fuel > 0
        THEN <<c>> \o WalkNext(L, s.current, fuel - 1)
        ELSE <<c>>

RECURSIVE WalkPrev(_, _, _)
WalkPrev(L, c, fuel) ==
    LET s == try_prev(L, c)
    IN  IF s.ret /\ fuel > 0
        THEN <<c>> \o WalkPrev(L, s.current, fuel - 1)
        ELSE <<c>>

\* the positions of q at which current() yields a node
RECURSIVE Visited(_, _)
Visited(L, q) ==
    IF q = <<>> THEN <<>>
    ELSE IF current(L, Head(q)).some
         THEN <<Head(q)>> \o Visited(L, Tail(q))
         ELSE Visited(L, Tail(q))

\* cursor_front + try_next until false; cursor_back + try_prev until false:
\* the handles of the nodes the traversal reads
Forward(L) ==
    Visited(L, WalkNext(L, cursor_front(L), entries_len(L.inner)))
Backward(L) ==
    Visited(L, WalkPrev(L, cursor_back(L), entries_len(L.inner)))

Reverse(q) == [i \in 1 .. Len(q) |-> q[Len(q) + 1 - i]]
Range(q) == {q[i] : i \in 1 .. Len(q)}
Distinct(q) == Cardinality(Range(q)) = Len(q)
Payloads(L, q) == [i \in 1 .. Len(q) |-> L.inner.entries[q[i]].node.item]

TypeOK ==
    /\ init \in Links
    /\ last \in Links
    /\ fault \in {"none", "panic"} \cup UBOutcomes
    /\ release \in BOOLEAN
    /\ calls \in 0 .. MaxCalls
    /\ tampered \in BOOLEAN
    /\ inner.len = Cardinality(OccupiedSlots(Self))
    /\ entries_len(inner) <= MaxSlots
    /\ cursor.kind \in {"none", "Cursor", "CursorMut"}
    /\ IsABag(cursor.at)
    /\ Positions \subseteq Links
    /\ (cursor.kind = "none") <=> (cursor.at = EmptyBag)
    /\ cursor.kind = "CursorMut" => BagCardinality(cursor.at) = 1

\* --------------------------------------------------------------- views
Occ == OccupiedSlots(Self)

NodeAt(L, k) == L.inner.entries[k].node

\* what a caller can observe of a list: head, tail, which slots are occupied
\* and each occupied slot's node
View(L) ==
    [init |-> L.init,
     last |-> L.last,
     nodes |-> [k \in OccupiedSlots(L) |-> NodeAt(L, k)]]

DequePayloads == [i \in 1 .. Len(deque) |-> deque[i][2]]
DequeHandles == [i \in 1 .. Len(deque) |-> deque[i][1]]

\* only push_front, push_back, remove, pop_front and pop_back have changed
\* the links so far
OnlyLinkingCalls == ~tampered

\* ---------------------------------------------------------------- claims

\* C1: after any sequence of push_front, push_back, remove, pop_front and
\* pop_back calls, head() is absent iff no slot is occupied, and tail() is
\* absent iff no slot is occupied.
C1_HeadTailAbsentIffEmpty ==
    OnlyLinkingCalls =>
        /\ (List_init(Self) = None) <=> (Occ = {})
        /\ (List_last(Self) = None) <=> (Occ = {})

\* C2: after any sequence of those calls, the walk from head() via next
\* visits every occupied slot exactly once (no cycle, no orphan).
C2_WalkVisitsEveryOccupiedSlotOnce ==
    OnlyLinkingCalls =>
        /\ Distinct(Forward(Self))
        /\ Range(Forward(Self)) = Occ

\* C3: the payloads read by walking from head() via next equal the reference
\* deque (push_front prepends, push_back appends, remove deletes the element
\* the handle was issued for), and the walk visits the handles in the
\* reference order.
C3_RefinesDeque ==
    OnlyLinkingCalls =>
        /\ Forward(Self) = DequeHandles
        /\ Payloads(Self, Forward(Self)) = DequePayloads

\* C4: whenever exactly one slot is occupied, head() and tail() are both
\* present and both name that slot.
C4_SingleNodeIsHeadAndTail ==
    \A k \in Occ :
        Occ = {k} => List_init(Self) = k /\ List_last(Self) = k

\* C5: in every reachable state, push_front(x) followed immediately by
\* pop_front() returns a node with payload x and leaves head, tail, the
\* occupied slots and every remaining node as they were before the push.
C5_PushFrontPopFrontRestores ==
    \A x \in Items, debug \in BOOLEAN, ub \in UBOutcomes :
        (fault = "none" /\ BuildOK(debug) /\ vacant_key(inner) < MaxSlots) =>
            LET pushed == push_front(Self, x, debug, ub)
                popped == pop_front(pushed.list, debug, ub, ub)
            IN  /\ pushed.fault = "none"
                /\ popped.fault = "none"
                /\ popped.ret.some
                /\ into_inner(popped.ret.node) = x
                /\ View(popped.list) = View(Self)

\* C6: pop_front() and pop_back() return absent only when the list holds no
\* node.
C6_PopAbsentOnlyWhenEmpty ==
    (ev.op \in {"pop_front", "pop_back"} /\ fault = "none" /\ ~ev.ret.some)
        => Occ = {}

\* C7: after any sequence of push_front, push_back, remove, pop_front and
\* pop_back calls, links are symmetric: an occupied slot s with next =
\* Some(n) has n occupied with n.prev = Some(s), and an occupied slot s with
\* prev = Some(p) has p occupied with p.next = Some(s).
C7_LinksSymmetric ==
    OnlyLinkingCalls =>
        \A s \in Occ :
            /\ Node_next(NodeAt(Self, s)) # None =>
                   /\ contains(Self, Node_next(NodeAt(Self, s)))
                   /\ Node_prev(NodeAt(Self, Node_next(NodeAt(Self, s)))) = s
            /\ Node_prev(NodeAt(Self, s)) # None =>
                   /\ contains(Self, Node_prev(NodeAt(Self, s)))
                   /\ Node_next(NodeAt(Self, Node_prev(NodeAt(Self, s)))) = s

\* a remove has just spliced a node out from between two others, which are
\* now linked to each other
C7_Witness ==
    /\ OnlyLinkingCalls
    /\ ev.op = "remove"
    /\ ev.ret.some
    /\ Node_prev(ev.ret.node) # None
    /\ Node_next(ev.ret.node) # None
    /\ contains(Self, Node_prev(ev.ret.node))
    /\ Node_next(NodeAt(Self, Node_prev(ev.ret.node))) = Node_next(ev.ret.node)

\* C8: after any sequence of those calls, if the list is non-empty, the slot
\* named by head() is occupied and has prev absent, and the slot named by
\* tail() is occupied and has next absent.
C8_EndsHaveNoOuterLink ==
    (OnlyLinkingCalls /\ Occ # {}) =>
        /\ get(Self, List_init(Self)).some
        /\ Node_prev(get(Self, List_init(Self)).node) = None
        /\ get(Self, List_last(Self)).some
        /\ Node_next(get(Self, List_last(Self)).node) = None

\* C9: the handles visited by a full forward traversal are exactly the
\* reverse of those visited by a full backward traversal.
C9_ForwardIsReverseOfBackward ==
    Forward(Self) = Reverse(Backward(Self))

\* the list after the step
SelfNext == List(inner', init', last')

\* the step is within defined behaviour: the call it makes has no unchecked
\* access beyond the entries of the arena (and none was made before it, a
\* run ending with the first)
Defined == fault' \notin UBOutcomes

\* C10: a call that reports absence is a no-op: remove on a handle that names
\* no occupied slot and pop_front/pop_back on a list without nodes return
\* absent without fault, and every call that returns absent leaves head,
\* tail, the arena and all nodes unchanged.  Stated of the calls of a run
\* up to its first undefined behaviour.
C10_AbsentIsNoOp ==
    [][Defined =>
          /\ (ev'.op = "remove" /\ ~contains(Self, ev'.arg)) =>
                 ~ev'.ret.some /\ fault' = "none"
          /\ (ev'.op \in {"pop_front", "pop_back"} /\ Occ = {}) =>
                 ~ev'.ret.some /\ fault' = "none"
          /\ (ev'.op \in {"remove", "pop_front", "pop_back"}
                 /\ ~ev'.ret.some /\ fault' = "none") =>
                 /\ inner' = inner
                 /\ init' = init
                 /\ last' = last]_vars

\* remove was just called on a handle that was issued and then vacated, on a
\* list that still holds a node, and returned absent
C10_Witness ==
    /\ ev.op = "remove"
    /\ ~ev.ret.some
    /\ fault = "none"
    /\ ev.arg \in DOMAIN inner.entries
    /\ ~contains(Self, ev.arg)
    /\ Occ # {}

\* ------------------------------------------------- steps, seen from outside
Pushes == {"push_front", "push_back"}

\* the step is a push, pop or remove that returned, within defined behaviour
Returned == ev'.op \in Pushes \cup Removals /\ fault' = "none"

\* the handle the step's call is a removal of: the argument of remove, the
\* head for pop_front, the tail for pop_back; None for any other call
Target ==
    CASE ev'.op = "remove" -> ev'.arg
      [] ev'.op = "pop_front" -> List_init(Self)
      [] ev'.op = "pop_back" -> List_last(Self)
      [] OTHER -> None

\* the handle whose node the step took out of the arena, None if it took
\* none: a removal of an occupied slot vacates it first (line 127), whether
\* or not the call then returns
RemovedHandle == IF contains(Self, Target) THEN Target ELSE None

VacantSlots(L) == DOMAIN L.inner.entries \ OccupiedSlots(L)

\* C11: a handle naming an occupied slot stays valid under edits elsewhere:
\* after a push, pop or remove that does not remove its own node, contains(h)
\* is still true and get(h) yields the same payload; and a push never returns
\* a handle whose index is occupied.  Stated of the calls of a run up to its
\* first undefined behaviour.
C11_LiveHandlesStable ==
    [][Returned =>
          /\ \A h \in Occ :
                 h # RemovedHandle =>
                     /\ contains(SelfNext, h)
                     /\ into_inner(get(SelfNext, h).node)
                            = into_inner(NodeAt(Self, h))
          /\ ev'.op \in Pushes => ~contains(Self, ev'.ret.key)]_vars

\* a push has just reused a freed slot while another node stayed in place
C11_Witness ==
    /\ ev.op \in Pushes
    /\ fault = "none"
    /\ ev.ret.key + 1 < entries_len(inner)
    /\ Cardinality(Occ) >= 2

\* the number of steps that answered true in a walk: one less than the
\* positions stood at
SuccessfulSteps(q) == Len(q) - 1

\* N - 1 for N occupied slots, and none on a list without nodes
StepBound == IF Occ = {} THEN 0 ELSE Cardinality(Occ) - 1

\* C14: traversal terminates: with N occupied slots, a cursor started at any
\* position answers false after at most N-1 successful try_next calls, and
\* likewise for try_prev (no next-cycle and no prev-cycle).
C14_TraversalTerminates ==
    \A c \in NodeIds \cup {None} :
        /\ SuccessfulSteps(WalkNext(Self, cursor_at(Self, c), entries_len(inner)))
               <= StepBound
        /\ SuccessfulSteps(WalkPrev(Self, cursor_at(Self, c), entries_len(inner)))
               <= StepBound

\* C15: remove(h) on an occupied handle whose node holds prev = p, next = n
\* splices it out and touches nothing else: when the call returns, h is
\* vacant; if p is present, p is a node with p.next = n, else head = n; if n
\* is present, n is a node with n.prev = p, else tail = p; the returned node
\* is the node as it was; every other node keeps its payload, next and prev,
\* and head/tail change only as stated.
C15_RemoveSplices ==
    [][(ev'.op = "remove" /\ contains(Self, ev'.arg) /\ Returns(fault')) =>
          LET h == ev'.arg
              node == NodeAt(Self, h)
              p == Node_prev(node)
              n == Node_next(node)
          IN  /\ ev'.ret.some
              /\ ev'.ret.node = node
              /\ OccupiedSlots(SelfNext) = Occ \ {h}
              /\ IF p # None
                 THEN /\ contains(SelfNext, p)
                      /\ Node_next(NodeAt(SelfNext, p)) = n
                      /\ init' = init
                 ELSE init' = n
              /\ IF n # None
                 THEN /\ contains(SelfNext, n)
                      /\ Node_prev(NodeAt(SelfNext, n)) = p
                      /\ last' = last
                 ELSE last' = p
              /\ \A k \in Occ \ {h} :
                     /\ into_inner(NodeAt(SelfNext, k)) = into_inner(NodeAt(Self, k))
                     /\ k # p => Node_next(NodeAt(SelfNext, k)) = Node_next(NodeAt(Self, k))
                     /\ k # n => Node_prev(NodeAt(SelfNext, k)) = Node_prev(NodeAt(Self, k))]_vars

\* C16: the unchecked accesses and debug assertions are valid in every
\* reachable state: a present head is an occupied slot with prev absent, a
\* present tail is an occupied slot with next absent, the stored predecessor
\* and successor of every node are occupied slots linking back to it, and no
\* call has failed.
C16_UncheckedAccessesValid ==
    /\ fault = "none"
    /\ List_init(Self) # None =>
           /\ contains(Self, List_init(Self))
           /\ Node_prev(NodeAt(Self, List_init(Self))) = None
    /\ List_last(Self) # None =>
           /\ contains(Self, List_last(Self))
           /\ Node_next(NodeAt(Self, List_last(Self))) = None
    /\ \A h \in Occ :
           /\ Node_prev(NodeAt(Self, h)) # None =>
                  /\ contains(Self, Node_prev(NodeAt(Self, h)))
                  /\ Node_next(NodeAt(Self, Node_prev(NodeAt(Self, h)))) = h
           /\ Node_next(NodeAt(Self, h)) # None =>
                  /\ contains(Self, Node_next(NodeAt(Self, h)))
                  /\ Node_prev(NodeAt(Self, Node_next(NodeAt(Self, h)))) = h

\* C17: after remove(h) succeeds, contains(h) is false and get(h) is absent
\* until the next push; a push reuses a freed slot before growing the arena,
\* and after a push returned index k, contains(k) is true and get(k) and
\* cursor_at(k) expose the node just pushed (whatever k named before).
\* Stated of the calls of a run up to its first undefined behaviour.
C17_StaleHandleAliasing ==
    [][Defined =>
          /\ RemovedHandle # None =>
                 /\ ~contains(SelfNext, RemovedHandle)
                 /\ ~get(SelfNext, RemovedHandle).some
          /\ \A h \in NodeIds :
                 (~contains(Self, h) /\ ev'.op \notin Pushes) =>
                     /\ ~contains(SelfNext, h)
                     /\ ~get(SelfNext, h).some
          /\ (ev'.op \in Pushes /\ fault' = "none") =>
                 /\ VacantSlots(Self) # {} => ev'.ret.key \in VacantSlots(Self)
                 /\ contains(SelfNext, ev'.ret.key)
                 /\ into_inner(get(SelfNext, ev'.ret.key).node) = ev'.arg
                 /\ current(SelfNext, cursor_at(SelfNext, ev'.ret.key))
                        = get(SelfNext, ev'.ret.key)]_vars

\* a push has just returned the index of a slot that was freed earlier while
\* the arena held a later slot: the stale handle names the new node
C17_Witness ==
    /\ ev.op \in Pushes
    /\ fault = "none"
    /\ ev.ret.key + 1 < entries_len(inner)
    /\ contains(Self, ev.ret.key)
    /\ into_inner(get(Self, ev.ret.key).node) = ev.arg

\* ------------------------------------------------------ cursor claims
\* current() of a live cursor of the given type standing at c over list L
CurrentOf(L, kind, c) ==
    IF kind = "CursorMut" THEN CursorMut_current(L, c) ELSE current(L, c)

\* c is a handle that names no occupied slot
Stale(L, c) == c # None /\ ~contains(L, c)

Steps == {"try_next", "try_prev"}

CursorOps ==
    {"cursor_front", "cursor_back", "cursor_at",
     "cursor_front_mut", "cursor_back_mut", "cursor_at_mut",
     "cursor_copy", "try_next", "try_prev", "write", "assign", "drop"}

\* C12: a cursor (read-only or mutable) standing at a handle whose slot is
\* not occupied, as cursor_at / cursor_at_mut leave it for a stale handle,
\* exposes no position: current() is absent, and try_next() and try_prev()
\* return false and leave the position unchanged.  Stated of the calls of a
\* run up to its first undefined behaviour.
C12_StaleCursorExposesNothing ==
    [][Defined =>
          /\ \A c \in BagToSet(cursor'.at) :
                 Stale(SelfNext, c) => ~CurrentOf(SelfNext, cursor'.kind, c).some
          /\ (ev'.op \in Steps /\ Stale(Self, ev'.arg)) =>
                 /\ ~ev'.ret.some
                 /\ cursor' = cursor]_vars

\* a cursor standing at a slot that was issued and then vacated, on a list
\* that still holds a node, has just answered false to try_next
C12_Witness ==
    /\ ev.op = "try_next"
    /\ ~ev.ret.some
    /\ BagIn(ev.arg, cursor.at)
    /\ Stale(Self, ev.arg)
    /\ ev.arg \in DOMAIN inner.entries
    /\ Occ # {}

\* C13: try_next() returns true and moves the cursor to the current node's
\* successor iff the current position is occupied and has a successor;
\* otherwise it returns false and the position and current() are unchanged.
\* Symmetrically for try_prev(); a cursor standing at head() answers false to
\* try_prev() and still yields the head node.
C13_CursorStepping ==
    [][/\ ev'.op \in Steps => inner' = inner
       /\ ev'.op = "try_next" =>
              LET c == ev'.arg
                  has == /\ contains(Self, c)
                         /\ Node_next(NodeAt(Self, c)) # None
              IN  /\ ev'.ret.some <=> has
                  /\ has => cursor'.at = (cursor.at (-) One(c))
                                             (+) One(Node_next(NodeAt(Self, c)))
                  /\ ~has => cursor' = cursor
       /\ ev'.op = "try_prev" =>
              LET c == ev'.arg
                  has == /\ contains(Self, c)
                         /\ Node_prev(NodeAt(Self, c)) # None
              IN  /\ ev'.ret.some <=> has
                  /\ has => cursor'.at = (cursor.at (-) One(c))
                                             (+) One(Node_prev(NodeAt(Self, c)))
                  /\ ~has => cursor' = cursor
       /\ (ev'.op = "try_prev" /\ List_init(Self) # None
              /\ ev'.arg = List_init(Self)) =>
              /\ ~ev'.ret.some
              /\ cursor' = cursor
              /\ get(Self, List_init(Self)).some]_vars

\* C18: cursor operations make no structural edit: constructing a Cursor or
\* CursorMut, stepping it and using what current() hands out leave head,
\* tail, the occupied slots and every node's next and prev unchanged; only a
\* CursorMut changes a payload, and only that of the node at its position.
C18_CursorOpsKeepStructure ==
    [][ev'.op \in CursorOps =>
          /\ init' = init
          /\ last' = last
          /\ fault' = fault
          /\ OccupiedSlots(SelfNext) = Occ
          /\ \A k \in Occ :
                 /\ Node_next(NodeAt(SelfNext, k)) = Node_next(NodeAt(Self, k))
                 /\ Node_prev(NodeAt(SelfNext, k)) = Node_prev(NodeAt(Self, k))
                 /\ into_inner(NodeAt(SelfNext, k)) # into_inner(NodeAt(Self, k))
                        => cursor = CursorOf("CursorMut", One(k))]_vars

====
